---- MODULE Spec2Model ----
(***************************************************************************)
(* Model of the ext_proc stream handler server.Process (src/main.go).      *)
(*                                                                         *)
(* A response body is a sequence of JSON lexemes (the model's unit of a    *)
(* byte string); number lexemes keep their digits, so that json.Unmarshal, *)
(* strconv.ParseInt and strconv.Itoa are modelled by what they compute on  *)
(* the 64-bit int of the amd64 build.                                      *)
(***************************************************************************)
EXTENDS Integers, Sequences, FiniteSets, TLC

\* ------------------------------------------------------------------ bounds
MaxCallbacks == 4          \* callbacks delivered on one stream (Spec)
MaxExtractCallbacks == 2   \* callbacks delivered on one stream (SpecExtract)
MaxSendFailures == 1       \* srv.Send failures injected on one stream
ChunkSize == 12            \* lexemes per chunk when the proxy streams a body
MaxConcCallbacks == 2      \* callbacks per stream when two streams are open
MaxHealthCalls == 2        \* calls of the health service

\* ------------------------------------------------------------ JSON lexemes
Tok(k, v) == [k |-> k, v |-> v]
LB == Tok("{", <<>>)
RB == Tok("}", <<>>)
LK == Tok("[", <<>>)
RK == Tok("]", <<>>)
COL == Tok(":", <<>>)
COM == Tok(",", <<>>)
NULL == Tok("null", <<>>)
TRUE_ == Tok("true", <<>>)
BAD == Tok("bad", <<>>)               \* bytes that start no JSON lexeme
S(s) == Tok("str", <<s>>)             \* a string lexeme "s"
N(lit) == Tok("num", lit)             \* a number lexeme, lit = its characters

Digits == {"0", "1", "2", "3", "4", "5", "6", "7", "8", "9"}

DigitVal(c) ==
    CASE c = "0" -> 0 [] c = "1" -> 1 [] c = "2" -> 2 [] c = "3" -> 3
      [] c = "4" -> 4 [] c = "5" -> 5 [] c = "6" -> 6 [] c = "7" -> 7
      [] c = "8" -> 8 [] c = "9" -> 9

DigitChar(d) ==
    CASE d = 0 -> "0" [] d = 1 -> "1" [] d = 2 -> "2" [] d = 3 -> "3"
      [] d = 4 -> "4" [] d = 5 -> "5" [] d = 6 -> "6" [] d = 7 -> "7"
      [] d = 8 -> "8" [] d = 9 -> "9"

AllDigits(cs) == \A i \in 1..Len(cs) : cs[i] \in Digits

\* The JSON grammar of an integer part: "0" or a non-zero digit then digits.
ValidIntPart(cs) ==
    /\ Len(cs) >= 1
    /\ AllDigits(cs)
    /\ (Len(cs) > 1 => cs[1] # "0")

\* encoding/json's scanner on a number lexeme: -? int (. digits+)?
ValidNumber(lit) ==
    LET body == IF Len(lit) >= 1 /\ lit[1] = "-" THEN Tail(lit) ELSE lit
        dots == {i \in 1..Len(body) : body[i] = "."}
    IN  IF dots = {}
        THEN ValidIntPart(body)
        ELSE /\ Cardinality(dots) = 1
             /\ LET d == CHOOSE i \in dots : TRUE
                IN  /\ ValidIntPart(SubSeq(body, 1, d - 1))
                    /\ d < Len(body)
                    /\ AllDigits(SubSeq(body, d + 1, Len(body)))

\* -------------------------------------------------- Go int (64 bit, amd64)
\* An int is kept as sign and decimal magnitude (most significant first):
\* 2^63 does not fit the model checker's own integers.
MaxInt64Mag == <<9, 2, 2, 3, 3, 7, 2, 0, 3, 6, 8, 5, 4, 7, 7, 5, 8, 0, 7>>
MinInt64Mag == <<9, 2, 2, 3, 3, 7, 2, 0, 3, 6, 8, 5, 4, 7, 7, 5, 8, 0, 8>>

IntVal(neg, mag) == [neg |-> neg, mag |-> mag]
Zero == IntVal(FALSE, <<0>>)

\* m1 <= m2 for magnitudes without leading zeros
MagLeq(m1, m2) ==
    \/ Len(m1) < Len(m2)
    \/ /\ Len(m1) = Len(m2)
       /\ \/ m1 = m2
          \/ \E i \in 1..Len(m1) :
                /\ m1[i] < m2[i]
                /\ \A j \in 1..(i - 1) : m1[j] = m2[j]

RECURSIVE StripZeros(_)
StripZeros(m) ==
    IF Len(m) > 1 /\ m[1] = 0 THEN StripZeros(Tail(m)) ELSE m

\* strconv.ParseInt(s, 10, 64): [err, n]
ParseInt(s) ==
    LET neg  == Len(s) >= 1 /\ s[1] = "-"
        body == IF neg THEN Tail(s) ELSE s
    IN  IF Len(body) = 0 \/ ~AllDigits(body)
        THEN [err |-> TRUE, n |-> Zero]
        ELSE LET mag == StripZeros([i \in 1..Len(body) |-> DigitVal(body[i])])
             IN  IF MagLeq(mag, IF neg THEN MinInt64Mag ELSE MaxInt64Mag)
                 THEN [err |-> FALSE, n |-> IntVal(neg /\ mag # <<0>>, mag)]
                 ELSE [err |-> TRUE, n |-> Zero]

\* strconv.Itoa(n): the decimal string of n
Itoa(n) ==
    LET ds == [i \in 1..Len(n.mag) |-> DigitChar(n.mag[i])]
    IN  IF n.neg THEN <<"-">> \o ds ELSE ds

\* ------------------------------------------------------------ JSON syntax
Fail == [ok |-> FALSE, val |-> [k |-> "none"], rest |-> <<>>]
Got(val, rest) == [ok |-> TRUE, val |-> val, rest |-> rest]

RECURSIVE ParseValue(_)
RECURSIVE ParseMembers(_, _)
RECURSIVE ParseElements(_, _)

\* one JSON value at the head of toks
ParseValue(toks) ==
    IF toks = <<>> THEN Fail
    ELSE LET t == Head(toks)
             r == Tail(toks)
         IN  CASE t.k = "{" ->
                    IF r # <<>> /\ Head(r).k = "}"
                    THEN Got([k |-> "obj", members |-> <<>>], Tail(r))
                    ELSE ParseMembers(r, <<>>)
               [] t.k = "[" ->
                    IF r # <<>> /\ Head(r).k = "]"
                    THEN Got([k |-> "arr", items |-> <<>>], Tail(r))
                    ELSE ParseElements(r, <<>>)
               [] t.k = "str" -> Got([k |-> "str", s |-> t.v[1]], r)
               [] t.k = "num" ->
                    IF ValidNumber(t.v) THEN Got([k |-> "num", lit |-> t.v], r)
                    ELSE Fail
               [] t.k = "null" -> Got([k |-> "null"], r)
               [] t.k = "true" -> Got([k |-> "bool"], r)
               [] OTHER -> Fail

\* "key" : value ( , "key" : value )* }
ParseMembers(toks, acc) ==
    IF Len(toks) < 2 \/ toks[1].k # "str" \/ toks[2].k # ":" THEN Fail
    ELSE LET pv == ParseValue(SubSeq(toks, 3, Len(toks)))
         IN  IF ~pv.ok \/ pv.rest = <<>> THEN Fail
             ELSE LET acc2 == Append(acc, [key |-> toks[1].v[1], val |-> pv.val])
                      sep  == Head(pv.rest)
                  IN  CASE sep.k = "}" ->
                             Got([k |-> "obj", members |-> acc2], Tail(pv.rest))
                        [] sep.k = "," -> ParseMembers(Tail(pv.rest), acc2)
                        [] OTHER -> Fail

\* value ( , value )* ]
ParseElements(toks, acc) ==
    LET pv == ParseValue(toks)
    IN  IF ~pv.ok \/ pv.rest = <<>> THEN Fail
        ELSE LET acc2 == Append(acc, pv.val)
                 sep  == Head(pv.rest)
             IN  CASE sep.k = "]" ->
                        Got([k |-> "arr", items |-> acc2], Tail(pv.rest))
                   [] sep.k = "," -> ParseElements(Tail(pv.rest), acc2)
                   [] OTHER -> Fail

\* json.checkValid: the whole input is exactly one JSON value
checkValid(data) ==
    LET pv == ParseValue(data) IN pv.ok /\ pv.rest = <<>>

\* ------------------------------------------------- json.Unmarshal (decode)
\* encoding/json matches an object key to a struct field by exact name and
\* otherwise by case-folded name.
Fold(key) ==
    CASE key = "Usage" -> "usage"
      [] key = "USAGE" -> "usage"
      [] key = "Prompt_Tokens" -> "prompt_tokens"
      [] key = "Total_Tokens" -> "total_tokens"
      [] key = "Completion_Tokens" -> "completion_tokens"
      [] OTHER -> key

\* the zero value of the anonymous struct openAIResp
ZeroUsage == [PromptTokens |-> Zero, TotalTokens |-> Zero, CompletionTokens |-> Zero]
openAIRespZero == [Usage |-> ZeroUsage]

\* a JSON value stored into an int field: [err, n]
StoreInt(val, cur) ==
    CASE val.k = "null" -> [err |-> FALSE, n |-> cur]
      [] val.k = "num" ->
            LET p == ParseInt(val.lit)
            IN  IF p.err THEN [err |-> TRUE, n |-> cur]
                ELSE [err |-> FALSE, n |-> p.n]
      [] OTHER -> [err |-> TRUE, n |-> cur]

RECURSIVE StoreUsageMembers(_, _, _)
\* the members of the "usage" object stored into the Usage struct, in order;
\* a type error is saved and decoding continues
StoreUsageMembers(ms, cur, err) ==
    IF ms = <<>> THEN [err |-> err, u |-> cur]
    ELSE LET m == Head(ms)
             f == Fold(m.key)
         IN  CASE f = "prompt_tokens" ->
                    LET r == StoreInt(m.val, cur.PromptTokens)
                    IN  StoreUsageMembers(Tail(ms),
                            [cur EXCEPT !.PromptTokens = r.n], err \/ r.err)
               [] f = "total_tokens" ->
                    LET r == StoreInt(m.val, cur.TotalTokens)
                    IN  StoreUsageMembers(Tail(ms),
                            [cur EXCEPT !.TotalTokens = r.n], err \/ r.err)
               [] f = "completion_tokens" ->
                    LET r == StoreInt(m.val, cur.CompletionTokens)
                    IN  StoreUsageMembers(Tail(ms),
                            [cur EXCEPT !.CompletionTokens = r.n], err \/ r.err)
               [] OTHER -> StoreUsageMembers(Tail(ms), cur, err)

\* StoreUsage that rejects a usage object lacking one of the three counts
StoreUsageRequireAll(val, cur) ==
    CASE val.k = "null" -> [err |-> FALSE, u |-> cur]
      [] val.k = "obj" ->
            LET keys == {Fold(val.members[i].key) : i \in 1..Len(val.members)}
                r == StoreUsageMembers(val.members, cur, FALSE)
            IN  [r EXCEPT !.err =
                    @ \/ ~({"prompt_tokens", "total_tokens", "completion_tokens"} \subseteq keys)]
      [] OTHER -> [err |-> TRUE, u |-> cur]

\* a JSON value stored into the Usage struct field: [err, u]
StoreUsage(val, cur) ==
    CASE val.k = "null" -> [err |-> FALSE, u |-> cur]
      [] val.k = "obj" -> StoreUsageMembers(val.members, cur, FALSE)
      [] OTHER -> [err |-> TRUE, u |-> cur]

RECURSIVE StoreTopMembers(_, _, _)
\* the members of the top-level object stored into openAIResp
StoreTopMembers(ms, cur, err) ==
    IF ms = <<>> THEN [err |-> err, v |-> cur]
    ELSE LET m == Head(ms)
         IN  IF Fold(m.key) = "usage"
             THEN LET r == StoreUsage(m.val, cur.Usage)
                  IN  StoreTopMembers(Tail(ms), [cur EXCEPT !.Usage = r.u],
                                      err \/ r.err)
             ELSE StoreTopMembers(Tail(ms), cur, err)

\* json.Unmarshal(rb.Body, &openAIResp): [err, v]
Unmarshal(data) ==
    IF ~checkValid(data) THEN [err |-> TRUE, v |-> openAIRespZero]
    ELSE LET val == ParseValue(data).val
         IN  CASE val.k = "null" -> [err |-> FALSE, v |-> openAIRespZero]
               [] val.k = "obj" -> StoreTopMembers(val.members, openAIRespZero, FALSE)
               [] OTHER -> [err |-> TRUE, v |-> openAIRespZero]

\* ------------------------------------------------- requests and responses
Phases == {"RequestHeaders", "RequestBody", "ResponseHeaders", "ResponseBody"}

\* a ProcessingRequest; "Other" is any variant the switch does not list
\* (trailers, an unset oneof)
Request(phase, eos, body) == [phase |-> phase, EndOfStream |-> eos, Body |-> body]
NoRequest == Request("none", FALSE, <<>>)

NoModeOverride == [present |-> FALSE, ResponseHeaderMode |-> "DEFAULT",
                   ResponseBodyMode |-> "NONE"]
BufferedModeOverride == [present |-> TRUE, ResponseHeaderMode |-> "SEND",
                         ResponseBodyMode |-> "BUFFERED"]

NoHeaderMutation == [present |-> FALSE, SetHeaders |-> <<>>, RemoveHeaders |-> <<>>]

\* a ProcessingResponse: the oneof variant, the mode override and the header
\* mutation of the variant's CommonResponse
Response(variant, mode, mutation) ==
    [variant |-> variant, ModeOverride |-> mode, HeaderMutation |-> mutation]
NoResponse == Response("unsent", NoModeOverride, NoHeaderMutation)

\* a HeaderValueOption as the code fills it: key and value only, the Append
\* option left unset
HeaderValueOption(key, value) == [Key |-> key, Value |-> value, Append |-> "unset"]

\* headers with the completion count listed before the total count
headersCompletionSecond(usage) ==
    << HeaderValueOption("x-openai-prompt-tokens", Itoa(usage.PromptTokens)),
       HeaderValueOption("x-openai-completion-tokens", Itoa(usage.CompletionTokens)),
       HeaderValueOption("x-openai-total-tokens", Itoa(usage.TotalTokens)) >>

\* headers with the total and completion values under each other's key
headersSwapped(usage) ==
    << HeaderValueOption("x-openai-prompt-tokens", Itoa(usage.PromptTokens)),
       HeaderValueOption("x-openai-total-tokens", Itoa(usage.CompletionTokens)),
       HeaderValueOption("x-openai-completion-tokens", Itoa(usage.TotalTokens)) >>

\* the headers slice built from the parsed usage
headers(usage) ==
    << HeaderValueOption("x-openai-prompt-tokens", Itoa(usage.PromptTokens)),
       HeaderValueOption("x-openai-total-tokens", Itoa(usage.TotalTokens)),
       HeaderValueOption("x-openai-completion-tokens", Itoa(usage.CompletionTokens)) >>

\* ResponseBodyResp without the check of json.Unmarshal's error
ResponseBodyRespNoErrCheck(rb) ==
    IF ~rb.EndOfStream
    THEN Response("ResponseBody", NoModeOverride, NoHeaderMutation)
    ELSE Response("ResponseBody", NoModeOverride,
                  [present |-> TRUE, SetHeaders |-> headers(Unmarshal(rb.Body).v.Usage),
                   RemoveHeaders |-> <<>>])

\* ResponseBodyResp without the check of rb.EndOfStream
ResponseBodyRespIgnoreEos(rb) ==
    LET u == Unmarshal(rb.Body)
    IN  IF u.err
        THEN Response("ResponseBody", NoModeOverride, NoHeaderMutation)
        ELSE Response("ResponseBody", NoModeOverride,
                      [present |-> TRUE, SetHeaders |-> headers(u.v.Usage),
                       RemoveHeaders |-> <<>>])

\* the ResponseBody case of the switch
ResponseBodyResp(rb) ==
    IF ~rb.EndOfStream
    THEN Response("ResponseBody", NoModeOverride, NoHeaderMutation)
    ELSE LET u == Unmarshal(rb.Body)
         IN  IF u.err
             THEN Response("ResponseBody", NoModeOverride, NoHeaderMutation)
             ELSE Response("ResponseBody", NoModeOverride,
                           [present |-> TRUE, SetHeaders |-> headers(u.v.Usage),
                            RemoveHeaders |-> <<>>])

\* BuildResp with the mode override also on the RequestHeaders response
BuildRespOverrideOnRequestHeaders(r) ==
    CASE r.phase = "RequestHeaders" ->
            Response("RequestHeaders", BufferedModeOverride, NoHeaderMutation)
      [] r.phase = "RequestBody" ->
            Response("RequestBody", NoModeOverride, NoHeaderMutation)
      [] r.phase = "ResponseHeaders" ->
            Response("ResponseHeaders", BufferedModeOverride, NoHeaderMutation)
      [] r.phase = "ResponseBody" -> ResponseBodyResp(r)
      [] OTHER -> Response("none", NoModeOverride, NoHeaderMutation)

\* BuildResp whose default case passes the callback through as headers
BuildRespDefaultAsHeaders(r) ==
    CASE r.phase = "RequestBody" ->
            Response("RequestBody", NoModeOverride, NoHeaderMutation)
      [] r.phase = "ResponseHeaders" ->
            Response("ResponseHeaders", BufferedModeOverride, NoHeaderMutation)
      [] r.phase = "ResponseBody" -> ResponseBodyResp(r)
      [] OTHER -> Response("RequestHeaders", NoModeOverride, NoHeaderMutation)

\* BuildResp with the mode override also on the ResponseBody responses
BuildRespOverrideOnBody(r) ==
    CASE r.phase = "RequestHeaders" ->
            Response("RequestHeaders", NoModeOverride, NoHeaderMutation)
      [] r.phase = "RequestBody" ->
            Response("RequestBody", NoModeOverride, NoHeaderMutation)
      [] r.phase = "ResponseHeaders" ->
            Response("ResponseHeaders", BufferedModeOverride, NoHeaderMutation)
      [] r.phase = "ResponseBody" ->
            [ResponseBodyResp(r) EXCEPT !.ModeOverride = BufferedModeOverride]
      [] OTHER -> Response("none", NoModeOverride, NoHeaderMutation)

\* the type switch of Process: the response built for one request
BuildResp(r) ==
    CASE r.phase = "RequestHeaders" ->
            Response("RequestHeaders", NoModeOverride, NoHeaderMutation)
      [] r.phase = "RequestBody" ->
            Response("RequestBody", NoModeOverride, NoHeaderMutation)
      [] r.phase = "ResponseHeaders" ->
            Response("ResponseHeaders", BufferedModeOverride, NoHeaderMutation)
      [] r.phase = "ResponseBody" -> ResponseBodyResp(r)
      [] OTHER -> Response("none", NoModeOverride, NoHeaderMutation)

\* ------------------------------------------------------- response bodies
RECURSIVE Join(_)
\* the sequences of fs, separated by commas
Join(fs) ==
    IF fs = <<>> THEN <<>>
    ELSE IF Len(fs) = 1 THEN fs[1]
    ELSE fs[1] \o <<COM>> \o Join(Tail(fs))

Object(fields) == <<LB>> \o Join(fields) \o <<RB>>
Member(key, value) == <<S(key), COL>> \o value
Lit(mag) == [i \in 1..Len(mag) |-> DigitChar(mag[i])]

L0 == Lit(<<0>>)
L5 == Lit(<<5>>)
L10 == Lit(<<1, 0>>)
L15 == Lit(<<1, 5>>)
LMax == Lit(MaxInt64Mag)              \* 2^63 - 1
LOver == Lit(MinInt64Mag)             \* 2^63

UsageObject(p, t, c) ==
    Object(<< Member("prompt_tokens", <<N(p)>>),
              Member("total_tokens", <<N(t)>>),
              Member("completion_tokens", <<N(c)>> ) >>)

\* {pre..., "usage":{"prompt_tokens":p,"total_tokens":t,"completion_tokens":c}, post...}
UsageDoc(pre, p, t, c, post) ==
    Object(pre \o << Member("usage", UsageObject(p, t, c)) >> \o post)

IdField == Member("id", <<S("x")>>)
ChoicesField == Member("choices", <<LK, LB, S("index"), COL, N(L0), RB, RK>>)

\* top-level fields that no struct field matches, before and after "usage"
UnrelatedFields ==
    { << <<>>, <<>> >>, << <<IdField>>, <<ChoicesField>> >> }

\* the usage values written in a body, as JSON integer literals
UsageTriples ==
    { <<L5, L15, L10>>, <<L0, L0, L0>>, <<LMax, LMax, L0>>,
      <<LOver, L15, L10>>, <<L5, LOver, L10>>, <<L5, L15, LOver>> }

UsageDocs ==
    { UsageDoc(x[1], v[1], v[2], v[3], x[2]) : x \in UnrelatedFields, v \in UsageTriples }

Valid == UsageDoc(<<>>, L5, L15, L10, <<>>)
NoUsage == Object(<<IdField>>)                                  \* {"id":"x"}
EmptyObject == Object(<<>>)                                     \* {}
NullDoc == <<NULL>>                                             \* null
EmptyDoc == <<>>                                                \* no bytes
Truncated == SubSeq(Valid, 1, 12)
Garbage == <<BAD>>
TrailingGarbage == Valid \o <<RB>>
LeadingZero == UsageDoc(<<>>, <<"0", "5">>, L15, L10, <<>>)
UsageString == Object(<<Member("usage", <<S("x")>>)>>)          \* {"usage":"x"}
UsageArray == Object(<<Member("usage", <<LK, N(L5), COM, N(L15), RK>>)>>)
UsageNull == Object(<<Member("usage", <<NULL>>)>>)              \* {"usage":null}
FieldString ==
    Object(<<Member("usage", Object(<< Member("prompt_tokens", <<S("5")>>),
                                       Member("total_tokens", <<N(L15)>>) >>))>>)
FieldFloat == UsageDoc(<<>>, <<"5", ".", "5">>, L15, L10, <<>>)
Negative == UsageDoc(<<>>, <<"-", "3">>, L15, L10, <<>>)
Partial == Object(<<Member("usage", Object(<<Member("total_tokens", <<N(L15)>>)>>))>>)
PartialTwo ==
    Object(<<Member("usage", Object(<< Member("prompt_tokens", <<N(L5)>>),
                                       Member("completion_tokens", <<N(L10)>>) >>))>>)
UsageEmpty == Object(<<Member("usage", Object(<<>>))>>)          \* {"usage":{}}
FoldedKey == Object(<<Member("Usage", UsageObject(L5, L15, L10))>>)
DupUsage ==
    UsageDoc(<<>>, L5, L15, L10,
             <<Member("USAGE", Object(<<Member("prompt_tokens", <<N(L10)>>)>>))>>)
NestedUsage == Object(<<Member("data", Valid)>>)
TopArray == <<LK>> \o Valid \o <<RK>>
TopNumber == <<N(L5)>>

\* bodies an upstream may answer with (SpecExtract)
ExtractBodies ==
    UsageDocs \cup
    { NoUsage, EmptyObject, NullDoc, EmptyDoc, Truncated, Garbage, TrailingGarbage,
      LeadingZero, UsageString, UsageArray, UsageNull, FieldString, FieldFloat,
      Negative, Partial, PartialTwo, UsageEmpty, FoldedKey, DupUsage, NestedUsage, TopArray, TopNumber }

\* bodies an upstream may answer with (Spec)
SessionBodies == { Valid }

RECURSIVE ChunksOf(_)
\* the body cut into pieces of ChunkSize lexemes, as a streaming proxy delivers it
ChunksOf(b) ==
    IF Len(b) <= ChunkSize THEN <<b>>
    ELSE <<SubSeq(b, 1, ChunkSize)>> \o ChunksOf(SubSeq(b, ChunkSize + 1, Len(b)))

Range(f) == {f[i] : i \in DOMAIN f}

\* the callbacks that carry no response body
PhaseCallbacks ==
    { Request(p, FALSE, <<>>) :
        p \in {"RequestHeaders", "RequestBody", "ResponseHeaders", "Other"} }

\* what srv.Recv may deliver on a stream whose upstream answered with body u,
\* the proxy buffering the body: any phase, in any order, with either flag
Callbacks(u) ==
    PhaseCallbacks \cup { Request("ResponseBody", e, u) : e \in BOOLEAN }

\* the same, the proxy also streaming the body in pieces
ChunkCallbacks(u) ==
    Callbacks(u) \cup
    { Request("ResponseBody", e, c) : e \in BOOLEAN, c \in Range(ChunksOf(u)) }

\* ------------------------------------------------------------------ state
VARIABLES
    upstream,   \* the body the upstream answered with on this stream
    pc,         \* "recv": blocked in srv.Recv; "send": in srv.Send; "returned"
    err,        \* what the last srv.Recv returned: "nil", "EOF" or "other"
    req,        \* the request being answered
    resp,       \* the response built for it
    received,   \* the requests srv.Recv has returned, in order
    sent,       \* the calls of srv.Send, in order: [resp, err]
    retval,     \* what Process returned: "none" before it returns
    peer,       \* a second stream, served by its own call of Process: a
                \* record of the same variables
    health      \* the calls of the health service so far, with their results

vars == <<upstream, pc, err, req, resp, received, sent, retval, peer, health>>

\* the variables of the first call of Process
session == <<upstream, pc, err, req, resp, received, sent, retval>>

SendFailures == Cardinality({i \in 1..Len(sent) : sent[i].err})

InitSession ==
    /\ pc = "recv"
    /\ err = "nil"
    /\ req = NoRequest
    /\ resp = NoResponse
    /\ received = <<>>
    /\ sent = <<>>
    /\ retval = "none"
    /\ peer \in { [upstream |-> u, pc |-> "recv", err |-> "nil",
                   req |-> NoRequest, resp |-> NoResponse,
                   received |-> <<>>, sent |-> <<>>, retval |-> "none"] :
                  u \in SessionBodies }
    /\ health = <<>>

Init == upstream \in SessionBodies /\ InitSession

InitExtract == upstream \in ExtractBodies /\ InitSession

\* RecvMsg with a default case that skips srv.Send (continue)
RecvMsgSkipUnrecognized(cb) ==
    /\ pc = "recv"
    /\ err' = "nil"
    /\ received' = Append(received, cb)
    /\ IF cb.phase \in Phases
       THEN req' = cb /\ resp' = BuildResp(cb) /\ pc' = "send"
       ELSE req' = NoRequest /\ resp' = NoResponse /\ pc' = "recv"
    /\ UNCHANGED <<peer, health, upstream, sent, retval>>

\* RecvMsg called while the previous response is still to be sent
RecvMsgPipelined(cb) ==
    /\ pc \in {"recv", "send"}
    /\ err' = "nil"
    /\ req' = cb
    /\ resp' = BuildResp(cb)
    /\ received' = Append(received, cb)
    /\ pc' = "send"
    /\ UNCHANGED <<peer, health, upstream, sent, retval>>

\* RecvMsg of a handler that remembers the response phase: only the first
\* ResponseHeaders of a stream gets the mode override
RecvMsgStateful(cb) ==
    /\ pc = "recv"
    /\ err' = "nil"
    /\ req' = cb
    /\ resp' = IF /\ cb.phase = "ResponseHeaders"
                  /\ \E i \in 1..Len(received) : received[i].phase = "ResponseHeaders"
               THEN Response("ResponseHeaders", NoModeOverride, NoHeaderMutation)
               ELSE BuildResp(cb)
    /\ received' = Append(received, cb)
    /\ pc' = "send"
    /\ UNCHANGED <<peer, health, upstream, sent, retval>>

\* srv.Recv returns a request; the switch builds its response
RecvMsg(cb) ==
    /\ pc = "recv"
    /\ err' = "nil"
    /\ req' = cb
    /\ resp' = BuildResp(cb)
    /\ received' = Append(received, cb)
    /\ pc' = "send"
    /\ UNCHANGED <<peer, health, upstream, sent, retval>>

\* RecvEOF reported as an error like any other
RecvEOFAsError ==
    /\ pc = "recv"
    /\ err' = "EOF"
    /\ pc' = "returned"
    /\ retval' = "Unknown"
    /\ UNCHANGED <<peer, health, upstream, req, resp, received, sent>>

\* srv.Recv returns io.EOF: Process returns nil
RecvEOF ==
    /\ pc = "recv"
    /\ err' = "EOF"
    /\ pc' = "returned"
    /\ retval' = "nil"
    /\ UNCHANGED <<peer, health, upstream, req, resp, received, sent>>

\* srv.Recv returns another error: Process returns status codes.Unknown
RecvErr ==
    /\ pc = "recv"
    /\ err' = "other"
    /\ pc' = "returned"
    /\ retval' = "Unknown"
    /\ UNCHANGED <<peer, health, upstream, req, resp, received, sent>>

\* Send whose failure ends the session with the error
SendReturnOnErr(e) ==
    /\ pc = "send"
    /\ sent' = Append(sent, [resp |-> resp, err |-> e])
    /\ pc' = IF e THEN "returned" ELSE "recv"
    /\ retval' = IF e THEN "Unknown" ELSE retval
    /\ req' = NoRequest
    /\ resp' = NoResponse
    /\ UNCHANGED <<peer, health, upstream, err, received>>

\* srv.Send(resp) with the given outcome; the loop goes back to srv.Recv
Send(e) ==
    /\ pc = "send"
    /\ sent' = Append(sent, [resp |-> resp, err |-> e])
    /\ pc' = "recv"
    /\ req' = NoRequest
    /\ resp' = NoResponse
    /\ UNCHANGED <<peer, health, upstream, err, received, retval>>

SendOk == Send(FALSE)

\* srv.Send fails: the error is logged
SendErr == SendFailures < MaxSendFailures /\ Send(TRUE)

\* ------------------------------------------------------- a second stream
\* grpc-go runs one call of Process per stream, each on its own goroutine
\* with its own srv, req, resp and err; server has no fields and the package
\* has no variables.

\* what srv.Recv may deliver when two streams are open: the response headers
\* and the final body, whole or cut short by the proxy
ConcCallbacks(u) ==
    { Request("ResponseHeaders", FALSE, <<>>),
      Request("ResponseBody", TRUE, u),
      Request("ResponseBody", TRUE, Truncated) }

PeerSendFailures == Cardinality({i \in 1..Len(peer.sent) : peer.sent[i].err})

\* PeerRecvMsg with resp a package variable: the response built on the second
\* stream replaces the one the first stream is about to send
PeerRecvMsgSharedResp(cb) ==
    /\ peer.pc = "recv"
    /\ peer' = [peer EXCEPT !.err = "nil", !.req = cb, !.resp = BuildResp(cb),
                            !.received = Append(@, cb), !.pc = "send"]
    /\ resp' = IF pc = "send" THEN BuildResp(cb) ELSE resp
    /\ UNCHANGED <<health, upstream, pc, err, req, received, sent, retval>>

\* PeerRecvMsg of a handler that gives up mutating once a send has failed:
\* after a failed srv.Send every callback gets a decision without override
\* and without headers
PeerRecvMsgAfterFailure(cb) ==
    /\ peer.pc = "recv"
    /\ peer' = [peer EXCEPT
                    !.err = "nil", !.req = cb,
                    !.resp = IF PeerSendFailures > 0
                             THEN Response(BuildResp(cb).variant,
                                           NoModeOverride, NoHeaderMutation)
                             ELSE BuildResp(cb),
                    !.received = Append(@, cb), !.pc = "send"]
    /\ UNCHANGED <<health, session>>

\* srv.Recv of the second stream returns a request; the switch builds its
\* response
PeerRecvMsg(cb) ==
    /\ peer.pc = "recv"
    /\ peer' = [peer EXCEPT !.err = "nil", !.req = cb, !.resp = BuildResp(cb),
                            !.received = Append(@, cb), !.pc = "send"]
    /\ UNCHANGED <<health, session>>

\* srv.Recv of the second stream returns io.EOF: its Process returns nil
PeerRecvEOF ==
    /\ peer.pc = "recv"
    /\ peer' = [peer EXCEPT !.err = "EOF", !.pc = "returned", !.retval = "nil"]
    /\ UNCHANGED <<health, session>>

\* srv.Recv of the second stream returns another error: its Process returns
\* status codes.Unknown
PeerRecvErr ==
    /\ peer.pc = "recv"
    /\ peer' = [peer EXCEPT !.err = "other", !.pc = "returned",
                            !.retval = "Unknown"]
    /\ UNCHANGED <<health, session>>

\* srv.Send(resp) of the second stream with the given outcome
PeerSend(e) ==
    /\ peer.pc = "send"
    /\ peer' = [peer EXCEPT !.sent = Append(@, [resp |-> peer.resp, err |-> e]),
                            !.pc = "recv", !.req = NoRequest,
                            !.resp = NoResponse]
    /\ UNCHANGED <<health, session>>

PeerSendOk == PeerSend(FALSE)

PeerSendErr == PeerSendFailures < MaxSendFailures /\ PeerSend(TRUE)

\* --------------------------------------------------------- health service
\* the result of a call of the health service: the status of the response
\* ("none": no response) and the error returned, with what the stream's
\* Process had returned when the call was served
HealthResult(call, st, e) ==
    [call |-> call, Status |-> st, err |-> e, stream |-> retval]

\* Check of a server that stops reporting SERVING once a stream has ended
\* with an error
CheckReflectsFailures ==
    /\ Len(health) < MaxHealthCalls
    /\ health' = Append(health,
                        HealthResult("Check",
                                     IF retval = "Unknown" THEN "NOT_SERVING"
                                                           ELSE "SERVING",
                                     "nil"))
    /\ UNCHANGED <<peer, session>>

\* healthServer.Check: HealthCheckResponse{Status: SERVING}, nil
Check ==
    /\ Len(health) < MaxHealthCalls
    /\ health' = Append(health, HealthResult("Check", "SERVING", "nil"))
    /\ UNCHANGED <<peer, session>>

\* healthServer.Watch: status.Error(codes.Unimplemented, ...), nothing is
\* sent on the stream
Watch ==
    /\ Len(health) < MaxHealthCalls
    /\ health' = Append(health, HealthResult("Watch", "none", "Unimplemented"))
    /\ UNCHANGED <<peer, session>>

Next ==
    \/ \E cb \in Callbacks(upstream) : Len(received) < MaxCallbacks /\ RecvMsg(cb)
    \/ RecvEOF
    \/ RecvErr
    \/ SendOk
    \/ SendErr

NextExtract ==
    \/ \E cb \in ChunkCallbacks(upstream) :
            Len(received) < MaxExtractCallbacks /\ RecvMsg(cb)
    \/ RecvEOF
    \/ RecvErr
    \/ SendOk
    \/ SendErr

Spec == Init /\ [][Next]_vars

SpecExtract == InitExtract /\ [][NextExtract]_vars

\* two streams open at the same time, their steps interleaved in any order
NextConc ==
    \/ \E cb \in ConcCallbacks(upstream) :
            Len(received) < MaxConcCallbacks /\ RecvMsg(cb)
    \/ RecvEOF
    \/ RecvErr
    \/ SendOk
    \/ SendErr
    \/ \E cb \in ConcCallbacks(peer.upstream) :
            Len(peer.received) < MaxConcCallbacks /\ PeerRecvMsg(cb)
    \/ PeerRecvEOF
    \/ PeerRecvErr
    \/ PeerSendOk
    \/ PeerSendErr

\* one stream open while the health service is called
NextHealth ==
    \/ \E cb \in ConcCallbacks(upstream) :
            Len(received) < MaxConcCallbacks /\ RecvMsg(cb)
    \/ RecvEOF
    \/ RecvErr
    \/ SendOk
    \/ SendErr
    \/ Check
    \/ Watch

SpecConc == Init /\ [][NextConc]_vars

SpecHealth == Init /\ [][NextHealth]_vars

\* ================================================================= claims
IsBody(r, eos) == r.phase = "ResponseBody" /\ r.EndOfStream = eos
PlainBodyDecision == Response("ResponseBody", NoModeOverride, NoHeaderMutation)
HeaderValues(r) ==
    [i \in 1..Len(r.HeaderMutation.SetHeaders) |-> r.HeaderMutation.SetHeaders[i].Value]
\* the variant of the decision that answers a callback of the given phase
VariantFor(phase) == IF phase \in Phases THEN phase ELSE "none"

\* C1: every callback received gets exactly one decision, and the decisions
\* are handed to srv.Send in the order of the callbacks: the i-th decision is
\* the one built for the i-th callback, no decision exists without its
\* callback, and when the stream has ended no callback is left unanswered.
C1_OneDecisionPerCallback ==
    /\ Len(sent) <= Len(received)
    /\ \A i \in 1..Len(sent) :
          /\ sent[i].resp = BuildResp(received[i])
          /\ sent[i].resp.variant = VariantFor(received[i].phase)
    /\ (pc = "send" => Len(received) = Len(sent) + 1 /\ resp = BuildResp(req)
                       /\ req = received[Len(received)])
    /\ (pc \in {"recv", "returned"} => Len(sent) = Len(received))

C1_Witness ==
    /\ pc = "returned"
    /\ Len(sent) >= 3
    /\ received[1].phase = "Other"
    /\ received[2].phase = "ResponseBody"
    /\ received[3].phase = "RequestHeaders"

\* C2: strict ping-pong: a callback is read only when the send attempt of
\* every earlier decision has completed, so at most one decision is
\* outstanding at any time.
C2_PingPong ==
    /\ [](Len(received) - Len(sent) \in {0, 1})
    /\ [][Len(received') > Len(received) =>
            /\ Len(sent) = Len(received)
            /\ Len(received') = Len(received) + 1]_vars

C2_Witness ==
    /\ pc = "send"
    /\ Len(received) >= 2
    /\ Len(sent) = Len(received) - 1
    /\ sent[1].err

\* the usage values of UsageTriples that a 64-bit int holds
FittingTriples == { <<L5, L15, L10>>, <<L0, L0, L0>>, <<LMax, LMax, L0>> }
DocOf(x, v) == UsageDoc(x[1], v[1], v[2], v[3], x[2])

\* C3 (as stated): a final ResponseBody whose body is
\* {"usage":{"prompt_tokens":P,"total_tokens":T,"completion_tokens":C}}, with
\* or without unrelated top-level fields, for any non-negative integers
\* P, T, C, is answered with exactly three headers whose values are the
\* decimal strings of P, T and C.
C3_Original ==
    \A i \in 1..Len(sent) : \A x \in UnrelatedFields, v \in UsageTriples :
        (IsBody(received[i], TRUE) /\ received[i].Body = DocOf(x, v))
        => /\ sent[i].resp.HeaderMutation.present
           /\ HeaderValues(sent[i].resp) = v

\* C3 (amended): the same for P, T, C that fit Go's 64-bit int
\* (0 .. 2^63 - 1): exactly three headers, valued P, T, C in this order.
C3_UsageHeaders ==
    \A i \in 1..Len(sent) : \A x \in UnrelatedFields, v \in FittingTriples :
        (IsBody(received[i], TRUE) /\ received[i].Body = DocOf(x, v))
        => /\ sent[i].resp.variant = "ResponseBody"
           /\ sent[i].resp.HeaderMutation.present
           /\ Len(sent[i].resp.HeaderMutation.SetHeaders) = 3
           /\ HeaderValues(sent[i].resp) = v

C3_Witness ==
    \E i \in 1..Len(sent) :
        /\ IsBody(received[i], TRUE)
        /\ received[i].Body = DocOf(<< <<IdField>>, <<ChoicesField>> >>, <<LMax, LMax, L0>>)
        /\ sent[i].resp.HeaderMutation.present

\* bodies json.Unmarshal rejects: malformed JSON, a value of the wrong type
\* for openAIResp, for "usage" or for one of its int fields
ParseFailBodies ==
    { EmptyDoc, Truncated, Garbage, TrailingGarbage, LeadingZero,
      TopArray, TopNumber, UsageString, UsageArray, FieldString, FieldFloat }
    \cup { DocOf(x, v) : x \in UnrelatedFields, v \in UsageTriples \ FittingTriples }
FailsToParse(r) == IsBody(r, TRUE) /\ r.Body \in ParseFailBodies

\* C4: a final ResponseBody whose body fails to parse is answered by a
\* BodyDecision without header mutation, Process does not return because of
\* it, and the callbacks after it are read and answered as usual.
C4_ParseFailure ==
    /\ [](\A i \in 1..Len(sent) :
            FailsToParse(received[i]) =>
                /\ sent[i].resp = PlainBodyDecision
                /\ \A j \in (i + 1)..Len(sent) : sent[j].resp = BuildResp(received[j]))
    /\ []((pc = "send" /\ FailsToParse(req)) => (resp = PlainBodyDecision /\ retval = "none"))
    /\ [][(pc = "send" /\ FailsToParse(req)) =>
            (pc' = "recv" /\ retval' = "none" /\ Len(sent') = Len(sent) + 1)]_vars

C4_Witness ==
    \E i \in 1..Len(sent) :
        /\ i < Len(sent)
        /\ IsBody(received[i], TRUE)
        /\ received[i].Body = UsageString
        /\ received[i + 1].phase = "RequestHeaders"
        /\ pc = "recv"

\* C5: a final ResponseBody whose body is well-formed JSON without a `usage`
\* object is answered with an empty mutation set: no usage header.
C5_NoUsageNoHeaders ==
    \A i \in 1..Len(sent) :
        (IsBody(received[i], TRUE) /\ received[i].Body \in {NoUsage, EmptyObject, NestedUsage})
        => sent[i].resp.HeaderMutation.SetHeaders = <<>>

\* the bodies of received[j..i], concatenated
RECURSIVE ConcatBodies(_, _)
ConcatBodies(j, i) ==
    IF j > i THEN <<>> ELSE received[j].Body \o ConcatBodies(j + 1, i)

\* received[j..i] is the body of the stream delivered in two or more chunks,
\* the last one only carrying end-of-stream
ChunkedDelivery(j, i) ==
    /\ j < i
    /\ \A k \in j..(i - 1) : IsBody(received[k], FALSE)
    /\ IsBody(received[i], TRUE)
    /\ [k \in 1..(i - j + 1) |-> received[j + k - 1].Body] = ChunksOf(upstream)

\* C6: when the body arrives in several chunks, the decision at end-of-stream
\* is the one the concatenation of the chunks gets when delivered as one chunk.
C6_ChunksConcatenated ==
    \A i \in 1..Len(sent) : \A j \in 1..i :
        ChunkedDelivery(j, i)
        => sent[i].resp = BuildResp(Request("ResponseBody", TRUE, ConcatBodies(j, i)))

Overrides == {i \in 1..Len(sent) : sent[i].resp.ModeOverride.present}

C8_NotEndOfStream ==
    /\ \A i \in 1..Len(sent) :
          IsBody(received[i], FALSE) => sent[i].resp = PlainBodyDecision
    /\ (pc = "send" /\ IsBody(req, FALSE)) => resp = PlainBodyDecision

C8_Witness ==
    \E i \in 1..Len(sent) :
        /\ received[i] = Request("ResponseBody", FALSE, Valid)
        /\ ~sent[i].err

\* C9: Process returns only out of srv.Recv: nil on io.EOF, an error on any
\* other read error; nothing is read or sent after the return.
C9_SessionEnd ==
    /\ []((pc = "returned") <=> (retval # "none"))
    /\ [](pc = "returned" =>
            \/ (err = "EOF" /\ retval = "nil")
            \/ (err = "other" /\ retval = "Unknown"))
    /\ [][pc = "returned" => UNCHANGED vars]_vars
    /\ [][(pc # "returned" /\ pc' = "returned") =>
            (pc = "recv" /\ err' \in {"EOF", "other"} /\ UNCHANGED <<received, sent>>)]_vars

C9_Witness ==
    /\ pc = "returned"
    /\ retval = "nil"
    /\ Len(sent) >= 2
    /\ sent[1].err

\* C10: a failed srv.Send does not end the session: the loop returns to
\* srv.Recv, and every later callback gets the decision it would get anyway
\* and its own call of srv.Send.
C10_SendFailureNonFatal ==
    /\ [][(pc = "send" /\ Len(sent') = Len(sent) + 1 /\ sent'[Len(sent')].err) =>
            (pc' = "recv" /\ retval' = "none")]_vars
    /\ [](\A i \in 1..Len(sent) :
            sent[i].err =>
                /\ \A j \in (i + 1)..Len(sent) : sent[j].resp = BuildResp(received[j])
                /\ Len(received) > Len(sent) => (pc = "send" /\ resp = BuildResp(req)))
    /\ []((retval # "none" /\ SendFailures > 0) => err \in {"EOF", "other"})

C10_Witness ==
    \E i \in 1..Len(sent) :
        /\ i < Len(sent)
        /\ sent[i].err
        /\ IsBody(received[i + 1], TRUE)
        /\ sent[i + 1].resp.HeaderMutation.present

\* the state machine of the design: the state after a callback
SMNext(st, cb) ==
    CASE st = "Start" /\ cb.phase = "RequestHeaders" -> "AwaitRequestBody"
      [] st = "AwaitRequestBody" /\ cb.phase = "RequestBody" -> "AwaitResponseHeaders"
      [] st = "AwaitResponseHeaders" /\ cb.phase = "ResponseHeaders" -> "Buffering"
      [] st = "Buffering" /\ IsBody(cb, TRUE) -> "Done"
      [] OTHER -> st

\* the callback is the one the state machine expects in state st
Expected(st, cb) ==
    \/ st = "Start" /\ cb.phase = "RequestHeaders"
    \/ st = "AwaitRequestBody" /\ cb.phase = "RequestBody"
    \/ st = "AwaitResponseHeaders" /\ cb.phase = "ResponseHeaders"
    \/ st = "Buffering" /\ cb.phase = "ResponseBody"

RECURSIVE SMState(_)
\* the state of the state machine after the first n callbacks of the stream
SMState(n) == IF n = 0 THEN "Start" ELSE SMNext(SMState(n - 1), received[n])

Unexpected(i) == ~Expected(SMState(i - 1), received[i])

KindOf(key) ==
    CASE key \in {"x-openai-prompt-tokens", "x-kuadrant-openai-prompt-tokens"} -> "prompt"
      [] key \in {"x-openai-total-tokens", "x-kuadrant-openai-total-tokens"} -> "total"
      [] key \in {"x-openai-completion-tokens", "x-kuadrant-openai-completion-tokens"}
            -> "completion"
      [] OTHER -> "unknown"

\* the mutation set of a response as pairs <<token count, value>>
MutationSet(r) ==
    {<<KindOf(r.HeaderMutation.SetHeaders[i].Key), r.HeaderMutation.SetHeaders[i].Value>> :
        i \in 1..Len(r.HeaderMutation.SetHeaders)}

ScenarioA ==
    << Request("RequestHeaders", FALSE, <<>>), Request("RequestBody", FALSE, <<>>),
       Request("ResponseHeaders", FALSE, <<>>), Request("ResponseBody", TRUE, Valid) >>

\* the stream so far is scenario A, or a beginning of it
FollowsScenarioA ==
    /\ Len(received) <= 4
    /\ \A k \in 1..Len(received) : received[k] = ScenarioA[k]

\* C12: for the callbacks RequestHeaders, RequestBody, ResponseHeaders,
\* ResponseBody(end-of-stream, usage 5/15/10) in this order the decisions
\* are: headers decision without override, body decision without mutation,
\* headers decision with the buffer-body override, body decision with the
\* mutation set {prompt = 5, total = 15, completion = 10}.
C12_ScenarioA ==
    FollowsScenarioA =>
        /\ Len(sent) >= 1 =>
              /\ sent[1].resp.variant = "RequestHeaders"
              /\ ~sent[1].resp.ModeOverride.present
              /\ ~sent[1].resp.HeaderMutation.present
        /\ Len(sent) >= 2 =>
              /\ sent[2].resp.variant = "RequestBody"
              /\ ~sent[2].resp.ModeOverride.present
              /\ ~sent[2].resp.HeaderMutation.present
        /\ Len(sent) >= 3 =>
              /\ sent[3].resp.variant = "ResponseHeaders"
              /\ sent[3].resp.ModeOverride.present
              /\ sent[3].resp.ModeOverride.ResponseBodyMode = "BUFFERED"
              /\ ~sent[3].resp.HeaderMutation.present
        /\ Len(sent) >= 4 =>
              /\ sent[4].resp.variant = "ResponseBody"
              /\ ~sent[4].resp.ModeOverride.present
              /\ sent[4].resp.HeaderMutation.present
              /\ Len(sent[4].resp.HeaderMutation.SetHeaders) = 3
              /\ MutationSet(sent[4].resp) =
                    {<<"prompt", L5>>, <<"total", L15>>, <<"completion", L10>>}

C12_Witness ==
    /\ received = ScenarioA
    /\ Len(sent) = 4
    /\ \A k \in 1..4 : ~sent[k].err

\* C13: a non-empty mutation set lists three assignments in the order
\* prompt, total, completion, all of them under SetHeaders, none asking for
\* append and none listed for removal.
C13_FixedOrderSet ==
    \A i \in 1..Len(sent) :
        LET m == sent[i].resp.HeaderMutation
        IN  (m.present /\ (m.SetHeaders # <<>> \/ m.RemoveHeaders # <<>>)) =>
              /\ Len(m.SetHeaders) = 3
              /\ [k \in 1..3 |-> KindOf(m.SetHeaders[k].Key)]
                    = <<"prompt", "total", "completion">>
              /\ \A k \in 1..3 : m.SetHeaders[k].Append # "true"
              /\ m.RemoveHeaders = <<>>

C13_Witness ==
    \E i \in 1..Len(sent) :
        /\ IsBody(received[i], TRUE)
        /\ received[i].Body = DupUsage
        /\ Len(sent[i].resp.HeaderMutation.SetHeaders) = 3

\* C14: every header value emitted is the decimal string of a non-negative
\* integer: digits only, no sign.
C14_NonNegativeValues ==
    \A i \in 1..Len(sent) :
        \A k \in 1..Len(sent[i].resp.HeaderMutation.SetHeaders) :
            LET v == sent[i].resp.HeaderMutation.SetHeaders[k].Value
            IN  Len(v) >= 1 /\ AllDigits(v)

\* C15: the three headers are named x-kuadrant-openai-prompt-tokens,
\* x-kuadrant-openai-total-tokens and x-kuadrant-openai-completion-tokens.
C15_KuadrantNames ==
    \A i \in 1..Len(sent) :
        sent[i].resp.HeaderMutation.present =>
            [k \in 1..Len(sent[i].resp.HeaderMutation.SetHeaders) |->
                sent[i].resp.HeaderMutation.SetHeaders[k].Key]
            = << "x-kuadrant-openai-prompt-tokens", "x-kuadrant-openai-total-tokens",
                 "x-kuadrant-openai-completion-tokens" >>

\* C16: a usage object lacking some of the three counts is extracted all the
\* same: three headers, "0" for an absent count, its own value for a present
\* one.
C16_AbsentFieldsZero ==
    \A i \in 1..Len(sent) :
        IsBody(received[i], TRUE) =>
            /\ received[i].Body = Partial =>
                  /\ Len(sent[i].resp.HeaderMutation.SetHeaders) = 3
                  /\ MutationSet(sent[i].resp) =
                        {<<"prompt", L0>>, <<"total", L15>>, <<"completion", L0>>}
            /\ received[i].Body = PartialTwo =>
                  /\ Len(sent[i].resp.HeaderMutation.SetHeaders) = 3
                  /\ MutationSet(sent[i].resp) =
                        {<<"prompt", L5>>, <<"total", L0>>, <<"completion", L10>>}
            /\ received[i].Body = UsageEmpty =>
                  /\ Len(sent[i].resp.HeaderMutation.SetHeaders) = 3
                  /\ MutationSet(sent[i].resp) =
                        {<<"prompt", L0>>, <<"total", L0>>, <<"completion", L0>>}

C16_Witness ==
    \E i \in 1..Len(sent) :
        /\ IsBody(received[i], TRUE)
        /\ received[i].Body = PartialTwo
        /\ sent[i].resp.HeaderMutation.present

\* C19: the decision has the variant of the callback's phase; a callback of
\* any other shape gets an empty decision (no variant, no mode override, no
\* header mutation), and the session goes on.
C19_VariantMatchesPhase ==
    /\ \A i \in 1..Len(sent) :
          /\ received[i].phase \in Phases => sent[i].resp.variant = received[i].phase
          /\ received[i].phase \notin Phases =>
                /\ sent[i].resp.variant = "none"
                /\ ~sent[i].resp.ModeOverride.present
                /\ ~sent[i].resp.HeaderMutation.present
    /\ (pc = "send" /\ req.phase \notin Phases) =>
          (resp.variant = "none" /\ retval = "none")
    /\ (pc = "returned" /\ Len(received) > 0 /\ received[Len(received)].phase \notin Phases)
          => (Len(sent) = Len(received) /\ err \in {"EOF", "other"})

C19_Witness ==
    /\ Len(sent) >= 2
    /\ received[1].phase = "Other"
    /\ sent[1].resp.variant = "none"
    /\ received[2].phase = "RequestBody"
    /\ sent[2].resp.variant = "RequestBody"

\* a step from (rcv, snt) to snt2 that changes the decisions sent on a stream
\* appends one decision: the one of the stream's own callback at that position
OwnDecision(rcv, snt, snt2) ==
    snt2 # snt =>
        /\ Len(snt2) = Len(snt) + 1
        /\ SubSeq(snt2, 1, Len(snt)) = snt
        /\ Len(snt2) <= Len(rcv)
        /\ snt2[Len(snt2)].resp = BuildResp(rcv[Len(snt2)])

\* a step that ends a call of Process is the return out of its own srv.Recv
OwnReturn(p, p2, e2) ==
    (p2 = "returned" /\ p # "returned") => (p = "recv" /\ e2 \in {"EOF", "other"})

\* C17: with two streams open, every step is a step of one stream and leaves
\* every variable of the other unchanged; each decision sent on a stream is
\* the one of that stream's own callback, whatever the other stream does;
\* and a stream ends only on the result of its own srv.Recv, never on a read
\* error, send failure or parse failure of the other.
C17_SessionsIsolated ==
    [][/\ peer' # peer => UNCHANGED session
       /\ session' # session => peer' = peer
       /\ OwnDecision(received, sent, sent')
       /\ OwnDecision(peer.received, peer.sent, peer'.sent)
       /\ OwnReturn(pc, pc', err')
       /\ OwnReturn(peer.pc, peer'.pc, peer'.err)]_vars

C17_Witness ==
    /\ peer.retval = "Unknown"
    /\ PeerSendFailures > 0
    /\ \E j \in 1..Len(peer.sent) : peer.received[j].Body = Truncated
    /\ retval = "none"
    /\ pc = "recv"
    /\ Len(sent) = MaxConcCallbacks
    /\ SendFailures = 0
    /\ Len(sent[Len(sent)].resp.HeaderMutation.SetHeaders) = 3

\* C18: every Check reports SERVING and returns no error, whatever the
\* stream has done so far; every Watch returns Unimplemented and delivers no
\* status.
C18_HealthAlwaysServing ==
    \A i \in 1..Len(health) :
        /\ health[i].call = "Check" =>
                health[i].Status = "SERVING" /\ health[i].err = "nil"
        /\ health[i].call = "Watch" =>
                health[i].Status = "none" /\ health[i].err = "Unimplemented"

C18_Witness ==
    /\ retval = "Unknown"
    /\ SendFailures > 0
    /\ Len(health) = 2
    /\ health[1].call = "Watch"
    /\ health[2].call = "Check"
    /\ health[2].stream = "Unknown"
    /\ health[2].Status = "SERVING"

\* C20: the decision is a function of the callback alone: the same callback
\* gets the same decision at any two positions, of one stream or of two
\* streams, whatever was received, failed to send or failed to parse before.
C20_Memoryless ==
    LET A == [i \in 1..Len(sent) |-> <<received[i], sent[i].resp>>]
        B == [j \in 1..Len(peer.sent) |-> <<peer.received[j], peer.sent[j].resp>>]
        All == Range(A) \cup Range(B)
    IN  \A x \in All, y \in All : x[1] = y[1] => x[2] = y[2]

C20_Witness ==
    /\ Len(sent) = 2
    /\ Len(peer.sent) = 2
    /\ received[2] = peer.received[2]
    /\ IsBody(received[2], TRUE)
    /\ Len(sent[2].resp.HeaderMutation.SetHeaders) = 3
    /\ sent[2].resp = peer.sent[2].resp
    /\ received[1].Body = Truncated
    /\ peer.received[1].phase = "ResponseHeaders"
    /\ peer.sent[1].err

====
